---- MODULE Spec2Model ----
(***************************************************************************)
(* A model of the Irish Pension Simulator (app.py): the year-stepped       *)
(* projection loop of run_pension_simulator, and the load / append / save  *)
(* handlers of the community board and of the comments table.              *)
(*                                                                         *)
(* Money and rates are Python floats in the program.  They are modelled as *)
(* exact rationals <<numerator, denominator>> in lowest terms with a       *)
(* positive denominator, so that two amounts are equal exactly when the    *)
(* two tuples are equal.  Rounding error of the floats is not modelled.    *)
(***************************************************************************)
EXTENDS Integers, Sequences, FiniteSets, TLC

(* ------------------------------------------------------------------ *)
(* Rational arithmetic: the +, -, *, >= and max of app.py's arithmetic *)
(* ------------------------------------------------------------------ *)

Abs(n) == IF n < 0 THEN -n ELSE n

RECURSIVE GCD(_, _)
GCD(a, b) == IF b = 0 THEN a ELSE GCD(b, a % b)

LCM(a, b) == (a \div GCD(a, b)) * b

\* n/d in lowest terms, d > 0
Rat(n, d) == LET g == GCD(Abs(n), d) IN <<n \div g, d \div g>>

Zero == Rat(0, 1)

One == Rat(1, 1)

RAdd(a, b) ==
    LET L == LCM(a[2], b[2])
    IN  Rat(a[1] * (L \div a[2]) + b[1] * (L \div b[2]), L)

RNeg(a) == <<-a[1], a[2]>>

RSub(a, b) == RAdd(a, RNeg(b))

RMul(a, b) ==
    LET g1 == GCD(Abs(a[1]), b[2])
        g2 == GCD(Abs(b[1]), a[2])
    IN  Rat((a[1] \div g1) * (b[1] \div g2), (a[2] \div g2) * (b[2] \div g1))

RGeq(a, b) == RSub(a, b)[1] >= 0

RGt(a, b) == RSub(a, b)[1] > 0

\* Python's max(a, b): b when b > a, else a
RMax(a, b) == IF RGt(b, a) THEN b ELSE a

(* ------------------------------------------------------------------ *)
(* Bounds and the parameter sets explored                              *)
(* ------------------------------------------------------------------ *)

\* the longest horizon ("Years to Simulate") explored
MaxYears == 10


Salaries == {Zero, Rat(200, 1)}

EarlyRates == {Rat(-1, 2), Zero, One}

LateRates == {Rat(-1, 2), One}

BaseRates == {Rat(-1, 10), Rat(1, 10)}

IncreaseRates == {Zero, Rat(1, 10), Rat(1, 2)}

Returns == {Rat(-1, 1), Rat(-1, 2), One}

Fees == {Zero, Rat(1, 2)}

Targets == {Rat(5, 1), Rat(100, 1), Rat(100000, 1)}

Strategies == {"StagedAutoEnrolment", "FixedContribution"}

\* "Years to Simulate" has no minimum in the form: a negative entry is possible
Horizons == -1 .. MaxYears

BoundedParameters ==
    [starting_salary            : Salaries,
     salary_increase_rate_early : EarlyRates,
     salary_increase_rate_late  : LateRates,
     pension_contribution_rate  : BaseRates,
     increase_contribution_rate : IncreaseRates,
     investment_return          : Returns,
     fee_rate                   : Fees,
     years                      : Horizons,
     target_savings             : Targets,
     alternative_strategy       : Strategies]

\* the form's default rates with a one-year horizon and a target of 13000
ConcreteScenario ==
    [starting_salary            |-> Rat(50000, 1),
     salary_increase_rate_early |-> Rat(10, 100),
     salary_increase_rate_late  |-> Rat(2, 100),
     pension_contribution_rate  |-> Rat(10, 100),
     increase_contribution_rate |-> Rat(60, 100),
     investment_return          |-> Rat(7, 100),
     fee_rate                   |-> Rat(1, 100),
     years                      |-> 1,
     target_savings             |-> Rat(13000, 1),
     alternative_strategy       |-> "FixedContribution"]

ParameterSets == BoundedParameters \cup {ConcreteScenario}

(* ------------------------------------------------------------------ *)
(* The projection: run_pension_simulator, "Run Simulation" branch      *)
(* ------------------------------------------------------------------ *)

\* milestone_year = None
None == -1

\* element y of a Python list (0-based) held as a TLA+ sequence (1-based)
At(list, y) == list[y + 1]

\* the schedule with each stage starting a year late
GetAutoEnrolmentRateLate(year) ==
    IF 1 <= year /\ year <= 4 THEN Rat(15, 1000)
    ELSE IF 5 <= year /\ year <= 7 THEN Rat(3, 100)
    ELSE IF 8 <= year /\ year <= 10 THEN Rat(45, 1000)
    ELSE Rat(6, 100)

GetAutoEnrolmentRate(year) ==
    IF 1 <= year /\ year <= 3 THEN Rat(15, 1000)
    ELSE IF 4 <= year /\ year <= 6 THEN Rat(3, 100)
    ELSE IF 7 <= year /\ year <= 9 THEN Rat(45, 1000)
    ELSE Rat(6, 100)

\* the fixed-contribution variant of the comparison strategy
FixedContribution(p, salary) == RMul(salary, p.pension_contribution_rate)

StagedContribution(salary, year) == RMul(salary, GetAutoEnrolmentRate(year))

\* year 0 of the comparison strategy
SeedAlternative(p) ==
    IF p.alternative_strategy = "StagedAutoEnrolment"
    THEN RMul(GetAutoEnrolmentRate(1), p.starting_salary)
    ELSE FixedContribution(p, p.starting_salary)

\* year 0 of the CUAN strategy taken at the first staged rate
SeedCuanStaged(p) == RMul(GetAutoEnrolmentRate(1), p.starting_salary)

\* year 0 of the CUAN strategy
SeedCuan(p) == RMul(p.pension_contribution_rate, p.starting_salary)

AlternativeContribution(p, salary, year) ==
    IF p.alternative_strategy = "StagedAutoEnrolment"
    THEN StagedContribution(salary, year)
    ELSE FixedContribution(p, salary)

EarlyPhase(year) == year <= 5

\* salary_current after the year's raise
SalaryNext(p, salary_current, year) ==
    IF EarlyPhase(year)
    THEN RMul(salary_current, RAdd(One, p.salary_increase_rate_early))
    ELSE RMul(salary_current, RAdd(One, p.salary_increase_rate_late))

\* the raise taken from the salary after the raise
EarlyContributionAfterRaise(p, contribution, salary_current) ==
    LET salary_new == RMul(salary_current, RAdd(One, p.salary_increase_rate_early))
        salary_increase == RMul(salary_new, p.salary_increase_rate_early)
        additional_contribution == RMul(salary_increase, p.increase_contribution_rate)
    IN  RAdd(contribution, additional_contribution)

EarlyContribution(p, contribution, salary_current) ==
    LET salary_increase == RMul(salary_current, p.salary_increase_rate_early)
        additional_contribution == RMul(salary_increase, p.increase_contribution_rate)
    IN  RAdd(contribution, additional_contribution)

\* salary_new is salary_current after the late raise
LateContribution(p, contribution, salary_new) ==
    RMax(contribution, RMul(salary_new, p.pension_contribution_rate))

\* annual_contribution_cuan of the year; salary_current is the salary before the raise
ContributionCuan(p, contribution, salary_current, year) ==
    IF EarlyPhase(year)
    THEN EarlyContribution(p, contribution, salary_current)
    ELSE LateContribution(p, contribution, SalaryNext(p, salary_current, year))

\* the contribution added after the year's growth
GrowBeforeContribution(balance, contribution, investment_return) ==
    RAdd(RMul(balance, RAdd(One, investment_return)), contribution)

Grow(balance, contribution, investment_return) ==
    RMul(RAdd(balance, contribution), RAdd(One, investment_return))

FeesPaid(balance, fee_rate) == RMul(balance, fee_rate)

\* the fee added to the balance
AfterFeesAdded(balance, fees_paid) == RAdd(balance, fees_paid)

AfterFees(balance, fees_paid) == RSub(balance, fees_paid)

\* the milestone taken again in every year that meets the target
MilestoneReachedAgain(milestone_found, after_fees, target_savings) ==
    RGeq(after_fees, target_savings)

MilestoneReached(milestone_found, after_fees, target_savings) ==
    (~milestone_found) /\ RGeq(after_fees, target_savings)

\* no simulation has run in this script run
NoRun ==
    [years_list                    |-> << >>,
     salary_list                   |-> << >>,
     annual_contribution_cuan_list |-> << >>,
     annual_contribution_auto_list |-> << >>,
     pension_balance_cuan_list     |-> << >>,
     pension_balance_auto_list     |-> << >>,
     fees_accumulated_cuan_list    |-> << >>,
     fees_accumulated_auto_list    |-> << >>,
     pension_after_fees_cuan_list  |-> << >>,
     pension_after_fees_auto_list  |-> << >>,
     salary_current                |-> Zero,
     annual_contribution_cuan      |-> Zero,
     pension_balance_cuan          |-> Zero,
     fees_accumulated_cuan         |-> Zero,
     pension_balance_auto          |-> Zero,
     fees_accumulated_auto         |-> Zero,
     milestone_year                |-> None,
     milestone_found               |-> FALSE]

\* the state before the loop
Seed(p) ==
    [years_list                    |-> <<0>>,
     salary_list                   |-> <<p.starting_salary>>,
     annual_contribution_cuan_list |-> <<SeedCuan(p)>>,
     annual_contribution_auto_list |-> <<SeedAlternative(p)>>,
     pension_balance_cuan_list     |-> <<SeedCuan(p)>>,
     pension_balance_auto_list     |-> <<SeedAlternative(p)>>,
     fees_accumulated_cuan_list    |-> <<Zero>>,
     fees_accumulated_auto_list    |-> <<Zero>>,
     pension_after_fees_cuan_list  |-> <<SeedCuan(p)>>,
     pension_after_fees_auto_list  |-> <<SeedAlternative(p)>>,
     salary_current                |-> p.starting_salary,
     annual_contribution_cuan      |-> SeedCuan(p),
     pension_balance_cuan          |-> SeedCuan(p),
     fees_accumulated_cuan         |-> Zero,
     pension_balance_auto          |-> SeedAlternative(p),
     fees_accumulated_auto         |-> Zero,
     milestone_year                |-> None,
     milestone_found               |-> FALSE]

\* one iteration of the loop
LoopBody(p, s, year) ==
    LET salary_current == SalaryNext(p, s.salary_current, year)
        annual_contribution_cuan ==
            ContributionCuan(p, s.annual_contribution_cuan, s.salary_current, year)
        annual_contribution_auto == AlternativeContribution(p, salary_current, year)
        pension_balance_cuan ==
            Grow(s.pension_balance_cuan, annual_contribution_cuan, p.investment_return)
        fees_paid_cuan == FeesPaid(pension_balance_cuan, p.fee_rate)
        pension_balance_cuan_after_fees == AfterFees(pension_balance_cuan, fees_paid_cuan)
        pension_balance_auto ==
            Grow(s.pension_balance_auto, annual_contribution_auto, p.investment_return)
        fees_paid_auto == FeesPaid(pension_balance_auto, p.fee_rate)
        pension_balance_auto_after_fees == AfterFees(pension_balance_auto, fees_paid_auto)
        hit == MilestoneReached(s.milestone_found, pension_balance_cuan_after_fees,
                                p.target_savings)
    IN  [years_list                    |-> Append(s.years_list, year),
         salary_list                   |-> Append(s.salary_list, salary_current),
         annual_contribution_cuan_list |->
             Append(s.annual_contribution_cuan_list, annual_contribution_cuan),
         annual_contribution_auto_list |->
             Append(s.annual_contribution_auto_list, annual_contribution_auto),
         pension_balance_cuan_list     |->
             Append(s.pension_balance_cuan_list, pension_balance_cuan),
         pension_balance_auto_list     |->
             Append(s.pension_balance_auto_list, pension_balance_auto),
         fees_accumulated_cuan_list    |->
             Append(s.fees_accumulated_cuan_list,
                    RAdd(s.fees_accumulated_cuan, fees_paid_cuan)),
         fees_accumulated_auto_list    |->
             Append(s.fees_accumulated_auto_list,
                    RAdd(s.fees_accumulated_auto, fees_paid_auto)),
         pension_after_fees_cuan_list  |->
             Append(s.pension_after_fees_cuan_list, pension_balance_cuan_after_fees),
         pension_after_fees_auto_list  |->
             Append(s.pension_after_fees_auto_list, pension_balance_auto_after_fees),
         salary_current                |-> salary_current,
         annual_contribution_cuan      |-> annual_contribution_cuan,
         pension_balance_cuan          |-> pension_balance_cuan,
         fees_accumulated_cuan         |-> RAdd(s.fees_accumulated_cuan, fees_paid_cuan),
         pension_balance_auto          |-> pension_balance_auto,
         fees_accumulated_auto         |-> RAdd(s.fees_accumulated_auto, fees_paid_auto),
         milestone_year                |-> IF hit THEN year ELSE s.milestone_year,
         milestone_found               |-> IF hit THEN TRUE ELSE s.milestone_found]

\* range(1, int(years)): the last year left out
InRangeExclusive(year, years) == 1 <= year /\ year < years

\* range(1, int(years) + 1) still has the value year
InRange(year, years) == 1 <= year /\ year < years + 1

\* what is shown and offered for sharing after the loop
NoResult == [shown |-> FALSE, final_balance_cuan |-> Zero,
             final_balance_auto |-> Zero, year_reached |-> None]

Result(s) ==
    [shown              |-> TRUE,
     final_balance_cuan |-> s.pension_after_fees_cuan_list[Len(s.pension_after_fees_cuan_list)],
     final_balance_auto |-> s.pension_after_fees_auto_list[Len(s.pension_after_fees_auto_list)],
     year_reached       |-> IF s.milestone_found THEN s.milestone_year ELSE None]

(* ------------------------------------------------------------------ *)
(* The two CSV tables and the handlers that add a row to them          *)
(* ------------------------------------------------------------------ *)

\* browser sessions running the script at the same time
NumSessions == 2

\* rows one session adds (board entries and comments together)
MaxPosts == 2

\* the latest reading of datetime.now(), in seconds
MaxClock == 2

Sessions == 1 .. NumSessions

Range(f) == {f[i] : i \in DOMAIN f}

\* pd.read_csv of the table's file; a missing file gives the empty table
LoadTable(file) == file

\* df.append(new_row, ignore_index=True)
AppendRow(df, row) == Append(df, row)

\* df.to_csv(FILE, index=False): the file becomes the session's whole table
SaveTable(df) == df

\* the outcomes of comments_df.sort_values(by="Timestamp", ascending=False):
\* the rows of df, newest first; pandas does not fix the order of equal stamps
SortValuesDescending(df) ==
    {q \in [DOMAIN df -> Range(df)] :
        /\ \E f \in [DOMAIN df -> DOMAIN df] :
              /\ \A i, j \in DOMAIN df : i # j => f[i] # f[j]
              /\ \A i \in DOMAIN df : q[i] = df[f[i]]
        /\ \A i, j \in DOMAIN df : i < j => q[i].Timestamp >= q[j].Timestamp}

\* Username and the rest of the board's row; the balances, the target and the
\* year reached are carried with the row and never read back by the handlers
NewRecord(s, n) == [Username |-> s, Entry |-> n]

NewComment(s, n, now) == [Timestamp |-> now, Commenter |-> s, Entry |-> n]

NoTable == << >>

VARIABLES
    params,     \* the values of the form
    pc,         \* "input", "loop", "done"
    year,       \* the loop variable: the next value of range(1, years + 1)
    sim,        \* the locals and lists of the run
    result,     \* the table's last row and milestone, once the loop has ended
    fee_rate2,  \* a second run of the same form with another "Annual Fee Rate"
    sim2,       \* the locals and lists of that second run
    community_file,  \* the rows of community_data.csv
    comments_file,   \* the rows of comments_data.csv
    session,    \* per session: where its handler is, and the table it holds
    posted,     \* per session: the rows it has added so far
    saved,      \* every row whose handler has finished saving it
    clock       \* datetime.now()

engine == <<params, pc, year, sim, result>>

second == <<fee_rate2, sim2>>

storage == <<community_file, comments_file, session, posted, saved, clock>>

vars == <<params, pc, year, sim, result, fee_rate2, sim2,
          community_file, comments_file, session, posted, saved, clock>>

Idle == [at |-> "idle", df |-> NoTable]

InitEngine ==
    /\ pc = "input"
    /\ year = 0
    /\ sim = NoRun
    /\ result = NoResult

InitStorage ==
    /\ community_file = NoTable
    /\ comments_file = NoTable
    /\ session = [s \in Sessions |-> Idle]
    /\ posted = [s \in Sessions |-> 0]
    /\ saved = {}
    /\ clock = 0

Init ==
    /\ params \in ParameterSets
    /\ InitEngine
    /\ fee_rate2 = params.fee_rate
    /\ sim2 = NoRun
    /\ InitStorage

\* the "Run Simulation" button: lines 137-165
RunSimulation ==
    /\ pc = "input"
    /\ sim' = Seed(params)
    /\ year' = 1
    /\ pc' = "loop"
    /\ UNCHANGED <<params, result, second, storage>>

\* one pass through the loop body: lines 167-208
LoopStep ==
    /\ pc = "loop"
    /\ InRange(year, params.years)
    /\ sim' = LoopBody(params, sim, year)
    /\ year' = year + 1
    /\ UNCHANGED <<params, pc, result, second, storage>>

\* the loop is exhausted: the table, the chart and the sharing form, lines 210-255
LoopExit ==
    /\ pc = "loop"
    /\ ~InRange(year, params.years)
    /\ result' = Result(sim)
    /\ pc' = "done"
    /\ UNCHANGED <<params, year, sim, second, storage>>

Next == RunSimulation \/ LoopStep \/ LoopExit

Spec == Init /\ [][Next]_vars

(* ------------------------------------------------------------------ *)
(* Two runs of one form that differ in the fee rate only               *)
(* ------------------------------------------------------------------ *)

HigherFees == {Rat(1, 2), One}

Params2 == [params EXCEPT !.fee_rate = fee_rate2]

InitPair ==
    /\ params \in ParameterSets
    /\ InitEngine
    /\ fee_rate2 \in {f \in HigherFees : RGt(f, params.fee_rate)}
    /\ sim2 = NoRun
    /\ InitStorage

PairRun ==
    /\ pc = "input"
    /\ sim' = Seed(params)
    /\ sim2' = Seed(Params2)
    /\ year' = 1
    /\ pc' = "loop"
    /\ UNCHANGED <<params, result, fee_rate2, storage>>

PairStep ==
    /\ pc = "loop"
    /\ InRange(year, params.years)
    /\ sim' = LoopBody(params, sim, year)
    /\ sim2' = LoopBody(Params2, sim2, year)
    /\ year' = year + 1
    /\ UNCHANGED <<params, pc, result, fee_rate2, storage>>

PairExit ==
    /\ pc = "loop"
    /\ ~InRange(year, params.years)
    /\ result' = Result(sim)
    /\ pc' = "done"
    /\ UNCHANGED <<params, year, sim, second, storage>>

NextPair == PairRun \/ PairStep \/ PairExit

SpecPair == InitPair /\ [][NextPair]_vars

(* ------------------------------------------------------------------ *)
(* Sessions adding rows to the board and to the comments               *)
(* ------------------------------------------------------------------ *)

InitStore ==
    /\ params = ConcreteScenario
    /\ InitEngine
    /\ fee_rate2 = params.fee_rate
    /\ sim2 = NoRun
    /\ InitStorage

\* "Add My Results to the Board", line 258: the whole table is read
AddLoad(s) ==
    /\ session[s].at = "idle"
    /\ posted[s] < MaxPosts
    /\ session' = [session EXCEPT ![s] =
                      [at |-> "adding", df |-> LoadTable(community_file)]]
    /\ UNCHANGED <<engine, second, community_file, comments_file, posted, saved, clock>>

\* lines 259-269: the row is appended to the table read and the table written back
AddSave(s) ==
    /\ session[s].at = "adding"
    /\ LET new_record == NewRecord(s, posted[s] + 1)
           community_df == AppendRow(session[s].df, new_record)
       IN  /\ community_file' = SaveTable(community_df)
           /\ saved' = saved \cup {new_record}
    /\ posted' = [posted EXCEPT ![s] = @ + 1]
    /\ session' = [session EXCEPT ![s] = Idle]
    /\ UNCHANGED <<engine, second, comments_file, clock>>

\* display_comments_section, lines 58-70: both tables are read; with an empty
\* board the function returns; a non-empty comments table is sorted newest first
CommentLoad(s) ==
    /\ session[s].at = "idle"
    /\ posted[s] < MaxPosts
    /\ LoadTable(community_file) # NoTable
    /\ \E comments_df \in
            IF LoadTable(comments_file) = NoTable
            THEN {NoTable}
            ELSE SortValuesDescending(LoadTable(comments_file)) :
          session' = [session EXCEPT ![s] = [at |-> "commenting", df |-> comments_df]]
    /\ UNCHANGED <<engine, second, community_file, comments_file, posted, saved, clock>>

\* "Post Comment", lines 77-90: the comment is appended and the table written back
CommentSave(s) ==
    /\ session[s].at = "commenting"
    /\ LET new_comment == NewComment(s, posted[s] + 1, clock)
           comments_df == AppendRow(session[s].df, new_comment)
       IN  /\ comments_file' = SaveTable(comments_df)
           /\ saved' = saved \cup {new_comment}
    /\ posted' = [posted EXCEPT ![s] = @ + 1]
    /\ session' = [session EXCEPT ![s] = Idle]
    /\ UNCHANGED <<engine, second, community_file, clock>>

\* a second passes
Tick ==
    /\ clock < MaxClock
    /\ clock' = clock + 1
    /\ UNCHANGED <<engine, second, community_file, comments_file, session, posted, saved>>

NextStore ==
    \/ \E s \in Sessions : AddLoad(s)
    \/ \E s \in Sessions : AddSave(s)
    \/ \E s \in Sessions : CommentLoad(s)
    \/ \E s \in Sessions : CommentSave(s)
    \/ Tick

SpecStore == InitStore /\ [][NextStore]_vars

(* ------------------------------------------------------------------ *)
(* Properties                                                          *)
(* ------------------------------------------------------------------ *)

\* the years k >= 1 whose record is in the lists of run s
Simulated(s) == 1 .. (Len(s.years_list) - 1)

Seeded == pc # "input"

Staged == params.alternative_strategy = "StagedAutoEnrolment"

BaseSeed == RMul(params.pension_contribution_rate, params.starting_salary)

\* C1 as stated: the record of year 0 holds the starting salary, for both
\* strategies a contribution and balances of base rate x starting salary,
\* and no fees
C1_SeedBothBase ==
    Seeded =>
        /\ At(sim.salary_list, 0) = params.starting_salary
        /\ At(sim.annual_contribution_cuan_list, 0) = BaseSeed
        /\ At(sim.pension_balance_cuan_list, 0) = BaseSeed
        /\ At(sim.pension_after_fees_cuan_list, 0) = BaseSeed
        /\ At(sim.annual_contribution_auto_list, 0) = BaseSeed
        /\ At(sim.pension_balance_auto_list, 0) = BaseSeed
        /\ At(sim.pension_after_fees_auto_list, 0) = BaseSeed
        /\ At(sim.fees_accumulated_cuan_list, 0) = Zero
        /\ At(sim.fees_accumulated_auto_list, 0) = Zero

StagedSeed == RMul(Rat(15, 1000), params.starting_salary)

\* C1 amended: in every state of a run the record of year 0 holds the starting
\* salary, no fees, base rate x starting salary for the CUAN strategy, and for
\* the comparison strategy 0.015 x starting salary under staged auto-enrolment
\* (base rate x starting salary under the fixed contribution)
C1_Seed ==
    Seeded =>
        LET alt == IF Staged THEN StagedSeed ELSE BaseSeed
        IN  /\ At(sim.years_list, 0) = 0
            /\ At(sim.salary_list, 0) = params.starting_salary
            /\ At(sim.annual_contribution_cuan_list, 0) = BaseSeed
            /\ At(sim.pension_balance_cuan_list, 0) = BaseSeed
            /\ At(sim.pension_after_fees_cuan_list, 0) = BaseSeed
            /\ At(sim.annual_contribution_auto_list, 0) = alt
            /\ At(sim.pension_balance_auto_list, 0) = alt
            /\ At(sim.pension_after_fees_auto_list, 0) = alt
            /\ At(sim.fees_accumulated_cuan_list, 0) = Zero
            /\ At(sim.fees_accumulated_auto_list, 0) = Zero

\* a finished staged run of several years whose two seeds differ
C1_Witness ==
    /\ pc = "done"
    /\ Staged
    /\ Len(sim.years_list) >= 3
    /\ StagedSeed # BaseSeed
    /\ At(sim.pension_balance_auto_list, 0) = StagedSeed

Recurrence(before, after, fees, contribution) ==
    \A k \in Simulated(sim) :
        LET fee == RMul(At(before, k), params.fee_rate)
        IN  /\ At(before, k) =
                  RMul(RAdd(At(before, k - 1), At(contribution, k)),
                       RAdd(One, params.investment_return))
            /\ At(after, k) = RSub(At(before, k), fee)
            /\ At(fees, k) = RAdd(At(fees, k - 1), fee)

\* C2: for each strategy and every simulated year k >= 1,
\* before[k] = (before[k-1] + contribution[k]) x (1 + return): the balance
\* carried is the one before fees; after[k] = before[k] - before[k] x fee and
\* fees[k] = fees[k-1] + before[k] x fee
C2_Recurrence ==
    Seeded =>
        /\ Recurrence(sim.pension_balance_cuan_list, sim.pension_after_fees_cuan_list,
                      sim.fees_accumulated_cuan_list, sim.annual_contribution_cuan_list)
        /\ Recurrence(sim.pension_balance_auto_list, sim.pension_after_fees_auto_list,
                      sim.fees_accumulated_auto_list, sim.annual_contribution_auto_list)

\* a year in which carrying the balance after fees would have given another result
C2_Witness ==
    /\ Seeded
    /\ \E k \in Simulated(sim) :
          /\ k >= 2
          /\ At(sim.pension_after_fees_cuan_list, k - 1) # At(sim.pension_balance_cuan_list, k - 1)
          /\ At(sim.pension_after_fees_auto_list, k - 1) # At(sim.pension_balance_auto_list, k - 1)
          /\ At(sim.pension_balance_cuan_list, k) # Zero
          /\ At(sim.pension_balance_auto_list, k) # Zero
          /\ At(sim.annual_contribution_cuan_list, k) # Zero

\* C3 as stated: the CUAN contribution never falls from one year to the next,
\* whatever the rates
C3_Ratchet ==
    Seeded =>
        \A k \in Simulated(sim) :
            RGeq(At(sim.annual_contribution_cuan_list, k),
                 At(sim.annual_contribution_cuan_list, k - 1))

\* the first simulated year k whose CUAN balance after fees meets the target
FirstCrossing(s, target) ==
    LET hits == {k \in Simulated(s) : RGeq(At(s.pension_after_fees_cuan_list, k), target)}
    IN  IF hits = {} THEN None
        ELSE CHOOSE k \in hits : \A j \in hits : k <= j

\* C4: at every loop boundary and at the end, milestone_year is the smallest
\* simulated year k >= 1 whose CUAN balance after fees is at least the target,
\* and None when there is none: a later year never changes it, year 0 never
\* sets it, and the comparison strategy plays no part
C4_FirstCrossing ==
    /\ Seeded =>
          /\ sim.milestone_year = FirstCrossing(sim, params.target_savings)
          /\ sim.milestone_found = (sim.milestone_year # None)
          /\ sim.milestone_year # 0
    /\ pc = "done" => result.year_reached = FirstCrossing(sim, params.target_savings)

\* a finished run whose seed already met the target, that met it in a simulated
\* year, fell below it in a later year and met it again after that, in a year
\* in which the comparison strategy was below the target
C4_Witness ==
    /\ pc = "done"
    /\ RGeq(At(sim.pension_after_fees_cuan_list, 0), params.target_savings)
    /\ sim.milestone_year >= 1
    /\ result.year_reached = sim.milestone_year
    /\ ~RGeq(At(sim.pension_after_fees_auto_list, sim.milestone_year), params.target_savings)
    /\ \E k, j \in Simulated(sim) :
          /\ sim.milestone_year < k
          /\ k < j
          /\ ~RGeq(At(sim.pension_after_fees_cuan_list, k), params.target_savings)
          /\ RGeq(At(sim.pension_after_fees_cuan_list, j), params.target_savings)

StageRate(k) ==
    IF k <= 3 THEN Rat(15, 1000)
    ELSE IF k <= 6 THEN Rat(30, 1000)
    ELSE IF k <= 9 THEN Rat(45, 1000)
    ELSE Rat(60, 1000)

\* C5: under staged auto-enrolment the comparison contribution of every
\* simulated year k >= 1 is the salary after that year's raise times 0.015 for
\* k in 1..3, 0.03 for 4..6, 0.045 for 7..9 and 0.06 from year 10 on, whatever
\* the other parameters and the contribution of the year before
C5_StagedSchedule ==
    (Seeded /\ Staged) =>
        \A k \in Simulated(sim) :
            At(sim.annual_contribution_auto_list, k) =
                RMul(At(sim.salary_list, k), StageRate(k))

\* a staged run that has reached the last stage with a salary left, and whose
\* base rate is none of the staged rates
C5_Witness ==
    /\ pc = "done"
    /\ Staged
    /\ Len(sim.years_list) >= 11
    /\ At(sim.salary_list, 10) # Zero
    /\ At(sim.annual_contribution_auto_list, 10) = RMul(At(sim.salary_list, 10), Rat(6, 100))
    /\ At(sim.annual_contribution_auto_list, 10) # At(sim.annual_contribution_auto_list, 9)
    /\ params.increase_contribution_rate # Zero

SameSeries ==
    /\ sim2.salary_list = sim.salary_list
    /\ sim2.annual_contribution_cuan_list = sim.annual_contribution_cuan_list
    /\ sim2.annual_contribution_auto_list = sim.annual_contribution_auto_list
    /\ sim2.pension_balance_cuan_list = sim.pension_balance_cuan_list
    /\ sim2.pension_balance_auto_list = sim.pension_balance_auto_list

\* C6 as stated: of two runs that differ in the fee rate only, the run with the
\* higher rate has the strictly lower balance after fees in every simulated
\* year and for each strategy, and the same salaries, contributions and
\* balances before fees
C6_StrictlyLower ==
    Seeded =>
        /\ SameSeries
        /\ \A k \in Simulated(sim) :
              /\ RGt(At(sim.pension_after_fees_cuan_list, k),
                     At(sim2.pension_after_fees_cuan_list, k))
              /\ RGt(At(sim.pension_after_fees_auto_list, k),
                     At(sim2.pension_after_fees_auto_list, k))

LowerWhenPositive(before, after, after2) ==
    \A k \in Simulated(sim) :
        /\ RGt(At(before, k), Zero) => RGt(At(after, k), At(after2, k))
        /\ At(before, k) = Zero => At(after, k) = At(after2, k)
        /\ RGt(Zero, At(before, k)) => RGt(At(after2, k), At(after, k))

\* C6 amended: the two runs have the same salaries, contributions and balances
\* before fees, and in every simulated year and for each strategy the run with
\* the higher fee rate has the strictly lower balance after fees when the
\* balance before fees is positive, the same when it is zero and the strictly
\* higher when it is negative
C6_FeeMonotone ==
    Seeded =>
        /\ SameSeries
        /\ LowerWhenPositive(sim.pension_balance_cuan_list,
                             sim.pension_after_fees_cuan_list,
                             sim2.pension_after_fees_cuan_list)
        /\ LowerWhenPositive(sim.pension_balance_auto_list,
                             sim.pension_after_fees_auto_list,
                             sim2.pension_after_fees_auto_list)

\* two finished runs with a positive balance before fees for both strategies
\* in a late year, and a positive fee rate in both runs
C6_Witness ==
    /\ pc = "done"
    /\ RGt(fee_rate2, params.fee_rate)
    /\ RGt(params.fee_rate, Zero)
    /\ \E k \in Simulated(sim) :
          /\ k >= 6
          /\ RGt(At(sim.pension_balance_cuan_list, k), Zero)
          /\ RGt(At(sim.pension_balance_auto_list, k), Zero)
          /\ RGt(At(sim.pension_after_fees_cuan_list, k),
                 At(sim2.pension_after_fees_cuan_list, k))

Euro(cents) == Rat(cents, 100)

SameLength(s) ==
    \A n \in {Len(s.salary_list),
              Len(s.annual_contribution_cuan_list), Len(s.annual_contribution_auto_list),
              Len(s.pension_balance_cuan_list), Len(s.pension_balance_auto_list),
              Len(s.pension_after_fees_cuan_list), Len(s.pension_after_fees_auto_list),
              Len(s.fees_accumulated_cuan_list), Len(s.fees_accumulated_auto_list)} :
        n = Len(s.years_list)

C8_Shape ==
    /\ SameLength(sim)
    /\ \A i \in DOMAIN sim.years_list : sim.years_list[i] = i - 1
    /\ pc = "loop" => Len(sim.years_list) = year
    /\ (pc = "done" /\ params.years >= 0) => Len(sim.years_list) = params.years + 1

\* the steps a run has left: the seed, the loop's passes, the exit
Remaining ==
    IF pc = "input" THEN (IF params.years > 0 THEN params.years ELSE 0) + 2
    ELSE IF pc = "loop" THEN (IF params.years > 0 THEN params.years ELSE 0) + 2 - year
    ELSE 0

\* C8: a run with a horizon N >= 0 reaches its end: every step of the run lowers
\* the number of steps left, which is never negative, and a run that is not at
\* its end has a step to take; it ends with N + 1 records whose years are
\* 0, 1, ..., N; at every loop boundary all the lists have one length, and the
\* loop does not stop before year N
C8_Terminates ==
    /\ []C8_Shape
    /\ [](Remaining >= 0 /\ (Remaining = 0 <=> pc = "done"))
    /\ [][Remaining' < Remaining]_vars
    /\ [][pc = "loop" /\ InRange(year, params.years) => pc' = "loop"]_vars

\* a finished run of six years or more that met its milestone before the last
\* year and ran on to the horizon
C8_Witness ==
    /\ pc = "done"
    /\ params.years >= 6
    /\ sim.milestone_found
    /\ sim.milestone_year < params.years
    /\ Len(sim.pension_after_fees_auto_list) = params.years + 1
    /\ sim.years_list[Len(sim.years_list)] = params.years

\* C9 as stated: with a negative horizon the run is refused: no records, no
\* milestone and no final balances for sharing are produced
C9_NegativeHorizonRefused ==
    params.years < 0 =>
        /\ pc \in {"input", "error"}
        /\ sim = NoRun
        /\ result = NoResult

\* C10 as stated: a row whose handler has finished saving it is in its table
\* in every later state
C10_SavedRowsStay ==
    \A row \in saved : row \in Range(community_file) \cup Range(comments_file)

====
